---- MODULE Spec2Model ----
(***************************************************************************)
(* CloudSeedingViewer: the playback controller of the flight/radar viewer. *)
(*                                                                         *)
(* The repository holds two revisions of the viewer script:                *)
(*   src/script.js         (radar_meta.json carries frames {time, file})   *)
(*   src/unnamed/part_000  (radar_meta.json carries a timestamps array)    *)
(* The variable build says which revision the page runs; every handler is  *)
(* translated from the revision it names.  A handler is one action: the    *)
(* JavaScript event loop runs each listener, timer callback and promise    *)
(* continuation to completion before the next one starts.                  *)
(*                                                                         *)
(* The bodies of the JavaScript functions are operators on a record h      *)
(* (the "heap") holding the script's globals and the page objects they     *)
(* touch.  h.exc is the exception being propagated, if any: a statement    *)
(* that throws leaves the assignments made before it in place.             *)
(***************************************************************************)
EXTENDS Integers, Sequences, FiniteSets, TLC

VARIABLES
    build,            \* which revision of the script the page runs
    flights,          \* the flights of flights.json, the options of #flight-select
    flightData,       \* let flightData       (null or {path, points})
    radarOverlay,     \* let radarOverlay     (null or a Leaflet image overlay)
    airplaneMarker,   \* let airplaneMarker   (null or a Leaflet circle marker)
    flightPathLayer,  \* let flightPathLayer  (null or a Leaflet geoJSON layer)
    animationState,   \* let animationState = {isPlaying, timer, currentIndex, ...}
    dom,              \* #animation-controls' hidden class, #timeline-slider's disabled and max,
                      \* #flight-select's value
    timers,           \* the browser's table of active intervals (setInterval ids)
    orphans,          \* markers and overlays on the map that no variable refers to
    pending,          \* loadFlight calls suspended at an await
    started,          \* how many loadFlight calls were made (counted up to MaxStarted)
    last,             \* the handler that ran last, the play state it found, how it ended
    query             \* the frame search on its own: its input and its result

vars == <<build, flights, flightData, radarOverlay, airplaneMarker, flightPathLayer,
          animationState, dom, timers, orphans, pending, started, last, query>>

(***************************************************************************)
(* Bounds of the model.                                                    *)
(***************************************************************************)
MaxPending == 2     \* loadFlight calls awaiting a fetch at the same time
MaxSeek == 3        \* the largest slider value delivered to the input listener
MaxOrphans == 1     \* orphaned layers are counted up to this many per kind
MaxTimers == 2      \* interval ids the browser hands out (reused once free)
MaxStarted == 2     \* loadFlight calls are counted up to this many
MaxFrames == 3      \* resolver inputs: longest radar series
MaxT == 2           \* resolver inputs: largest timestamp

(***************************************************************************)
(* JavaScript values.                                                      *)
(***************************************************************************)
null == [null |-> TRUE]
NoFlight == 0       \* currentFlightId: null
NoFile == -1        \* currentRadarFile: null
NoTimer == 0        \* timer: null
NaN == -1           \* the time value of an Invalid Date

Builds == {"script.js", "part_000"}

\* new Date(s): a timestamp string that parses gives its time value, any
\* other string gives an Invalid Date (time value NaN).
NewDate(s) == IF s >= 0 THEN s ELSE NaN

\* a <= b on two Dates: both are converted to numbers; false when either is NaN.
DateLe(a, b) == a # NaN /\ b # NaN /\ a <= b

\* a >= b on two Dates.
DateGe(a, b) == a # NaN /\ b # NaN /\ a >= b

\* new Date(a) - new Date(b): the comparator of the frames sort (NaN when
\* either date is invalid, which sort treats as 0).
DateDiff(a, b) == IF NewDate(a) = NaN \/ NewDate(b) = NaN THEN 0 ELSE NewDate(a) - NewDate(b)

(***************************************************************************)
(* The data behind fetch(): processed_data/<flightId>/flight_data.geojson  *)
(* and processed_data/<flightId>/radar_meta.json, for four flights.        *)
(*   1: three points, two frames in order, the first point earlier than    *)
(*      the first frame                                                    *)
(*   2: two points and two frames, both out of order, no LineString        *)
(*   3: no Point feature                                                   *)
(*   4: one point, no radar frame                                          *)
(* A point's coordinates are written <<flight, position in the file>>, a   *)
(* frame's file is its position in the file (frame_<i>.png).               *)
(***************************************************************************)
Flights == 1..4

\* processed_data/flights.json: the flights one deployment offers
FlightLists == {{1, 2}, {3}, {4}}

TrackTimes(f) ==
    CASE f = 1 -> <<0, 2, 4>>
      [] f = 2 -> <<3, 1>>
      [] f = 3 -> <<>>
      [] OTHER -> <<5>>

FrameTimes(f) ==
    CASE f = 1 -> <<1, 3>>
      [] f = 2 -> <<2, 0>>
      [] f = 3 -> <<0>>
      [] OTHER -> <<>>

HasLineString(f) == f # 2

\* geojsonData.features.filter(f => f.geometry.type === 'Point')
Points(f) ==
    [i \in 1..Len(TrackTimes(f)) |->
        [timestamp_iso |-> TrackTimes(f)[i], coordinates |-> <<f, i - 1>>]]

\* geojsonData.features.find(f => f.geometry.type === 'LineString'):
\* the feature (named by its flight) or undefined (0)
PathOf(f) == IF HasLineString(f) THEN f ELSE 0

\* the object loadFlight builds from flight_data.geojson
FlightDataOf(f) == [path |-> PathOf(f), points |-> Points(f)]

\* radar_meta.json as script.js reads it: {bounds, frames: [{time, file}]}
FramesOf(f) ==
    [i \in 1..Len(FrameTimes(f)) |-> [time |-> FrameTimes(f)[i], file |-> i - 1]]

\* radar_meta.json of either revision
RadarMetaOf(b, f) ==
    IF b = "script.js"
    THEN [bounds |-> f, frames |-> FramesOf(f)]
    ELSE [bounds |-> f, timestamps |-> FrameTimes(f)]

(***************************************************************************)
(* frames.sort((a, b) => new Date(a.time) - new Date(b.time)): Array.sort  *)
(* is stable; the result is built by stable insertion.                     *)
(***************************************************************************)
\* InsertFrame with >= in place of >: a frame goes in front of the frames of
\* its own timestamp.
RECURSIVE InsertFrameUnstable(_, _)
InsertFrameUnstable(sorted, x) ==
    IF sorted = <<>> THEN <<x>>
    ELSE LET e == sorted[Len(sorted)] IN
         IF DateDiff(e.time, x.time) >= 0
         THEN Append(InsertFrameUnstable(SubSeq(sorted, 1, Len(sorted) - 1), x), e)
         ELSE Append(sorted, x)

RECURSIVE InsertFrame(_, _)
InsertFrame(sorted, x) ==
    IF sorted = <<>> THEN <<x>>
    ELSE LET e == sorted[Len(sorted)] IN
         IF DateDiff(e.time, x.time) > 0
         THEN Append(InsertFrame(SubSeq(sorted, 1, Len(sorted) - 1), x), e)
         ELSE Append(sorted, x)

RECURSIVE SortFramesFrom(_, _, _)
SortFramesFrom(frames, i, acc) ==
    IF i > Len(frames) THEN acc
    ELSE SortFramesFrom(frames, i + 1, InsertFrame(acc, frames[i]))

SortFrames(frames) == SortFramesFrom(frames, 1, <<>>)

(***************************************************************************)
(* The frame search of updateFrame.  Positions are JavaScript's: 0-based.  *)
(***************************************************************************)
\* ScanForward with < in place of <=: a frame stamped exactly at the point's
\* time is not taken.
RECURSIVE ScanForwardStrict(_, _, _, _)
ScanForwardStrict(frames, pointTime, i, cur) ==
    IF i >= Len(frames) THEN cur
    ELSE IF DateLe(NewDate(frames[i + 1].time), pointTime)
            /\ NewDate(frames[i + 1].time) # pointTime
         THEN ScanForwardStrict(frames, pointTime, i + 1, i)
         ELSE cur

\* script.js: correctFrame = frames[0]; for (frame of frames)
\*     if (new Date(frame.time) <= pointTime) correctFrame = frame; else break;
\* i is the position the loop is at, cur the position of correctFrame.
RECURSIVE ScanForward(_, _, _, _)
ScanForward(frames, pointTime, i, cur) ==
    IF i >= Len(frames) THEN cur
    ELSE IF DateLe(NewDate(frames[i + 1].time), pointTime)
         THEN ScanForward(frames, pointTime, i + 1, i)
         ELSE cur

\* position of correctFrame in a non-empty frames array
CorrectFrameIndex(frames, pointTime) == ScanForward(frames, pointTime, 0, 0)

\* ScanBackward with the comparison turned round (pointTime <= radarTime).
RECURSIVE ScanBackwardReversed(_, _, _)
ScanBackwardReversed(timestamps, pointTime, i) ==
    IF i < 0 THEN 0
    ELSE IF DateLe(pointTime, NewDate(timestamps[i + 1]))
         THEN i
         ELSE ScanBackwardReversed(timestamps, pointTime, i - 1)

\* part_000: radarFrameIndex = 0; for (i = length - 1; i >= 0; i--)
\*     if (pointTime >= new Date(timestamps[i])) { radarFrameIndex = i; break; }
RECURSIVE ScanBackward(_, _, _)
ScanBackward(timestamps, pointTime, i) ==
    IF i < 0 THEN 0
    ELSE IF DateGe(pointTime, NewDate(timestamps[i + 1]))
         THEN i
         ELSE ScanBackward(timestamps, pointTime, i - 1)

RadarFrameIndex(timestamps, pointTime) ==
    ScanBackward(timestamps, pointTime, Len(timestamps) - 1)

(***************************************************************************)
(* The heap: the script's globals, the page objects they touch and the     *)
(* exception in flight.  setUrl counts the radarOverlay.setUrl calls of    *)
(* the running handler.                                                    *)
(***************************************************************************)
Heap ==
    [flightData |-> flightData, radarOverlay |-> radarOverlay,
     airplaneMarker |-> airplaneMarker, flightPathLayer |-> flightPathLayer,
     animationState |-> animationState, dom |-> dom, timers |-> timers,
     orphans |-> orphans, exc |-> "none", setUrl |-> 0]

Throw(h, e) == [h EXCEPT !.exc = e]

Min(a, b) == IF a <= b THEN a ELSE b

\* map.removeLayer(layer)
OffMap(layer) == IF layer = null THEN null ELSE [layer EXCEPT !.onMap = FALSE]

\* airplaneMarker or radarOverlay is given a new layer: the old one, if still
\* on the map, stays there with no reference left to remove it by.
Orphaned(h, kind, old) ==
    IF old # null /\ old.onMap
    THEN [h EXCEPT !.orphans[kind] = Min(@ + 1, MaxOrphans)]
    ELSE h

\* setInterval's return value: an id no active interval has.  The script
\* keeps one handle, animationState.timer, and overwrites it with every id it
\* is given, so an id whose interval was cleared can name the next interval.
TimerIds == 1..MaxTimers

FreeTimerIds(h) == TimerIds \ h.timers

NewTimerId(h) == CHOOSE i \in FreeTimerIds(h) : \A j \in FreeTimerIds(h) : i <= j

\* pauseAnimation without its clearInterval(animationState.timer).
pauseAnimationNoClear(h) ==
    IF ~h.animationState.isPlaying THEN h
    ELSE [h EXCEPT !.animationState.isPlaying = FALSE]

\* pauseAnimation that also rewinds to the first point.
pauseAnimationRewinds(h) ==
    IF ~h.animationState.isPlaying THEN h
    ELSE [h EXCEPT !.animationState.isPlaying = FALSE,
                   !.animationState.currentIndex = 0,
                   !.timers = @ \ {h.animationState.timer}]

\* function pauseAnimation()
pauseAnimation(h) ==
    IF ~h.animationState.isPlaying THEN h
    ELSE [h EXCEPT !.animationState.isPlaying = FALSE,
                   !.timers = @ \ {h.animationState.timer}]

\* playAnimation without its "if (animationState.isPlaying) return".
playAnimationNoGuard(h) ==
    LET id == NewTimerId(h) IN
    [h EXCEPT !.animationState.isPlaying = TRUE,
              !.animationState.timer = id,
              !.timers = @ \cup {id}]

\* function playAnimation()
playAnimation(h) ==
    IF h.animationState.isPlaying THEN h
    ELSE LET id == NewTimerId(h) IN
         [h EXCEPT !.animationState.isPlaying = TRUE,
                   !.animationState.timer = id,
                   !.timers = @ \cup {id}]

\* radarOverlay.setUrl(url), on the overlay the variable refers to
SetOverlayUrl(h, url) ==
    [h EXCEPT !.radarOverlay.url = url, !.setUrl = @ + 1]

\* airplaneMarker.setLatLng([coords[1], coords[0]]), the tail both
\* revisions of updateFrame share.
MoveMarker(h, point, pointIndex) ==
    IF h.airplaneMarker = null THEN Throw(h, "TypeError")
    ELSE [h EXCEPT !.airplaneMarker.at = point.coordinates]

\* function updateFrame(pointIndex), script.js
updateFrameScript(h, pointIndex) ==
    LET h1 == [h EXCEPT !.animationState.currentIndex = pointIndex] IN
    IF h1.flightData = null THEN Throw(h1, "TypeError")
    ELSE IF pointIndex < 0 \/ pointIndex >= Len(h1.flightData.points) THEN h1
    ELSE
    LET point == h1.flightData.points[pointIndex + 1]
        pointTime == NewDate(point.timestamp_iso)
    IN
    IF h1.animationState.radarMeta = null THEN Throw(h1, "TypeError")
    ELSE
    LET frames == h1.animationState.radarMeta.frames IN
    IF frames = <<>> THEN Throw(h1, "TypeError")
    ELSE
    LET correctFrame == frames[CorrectFrameIndex(frames, pointTime) + 1]
        newImageUrl == [flight |-> h1.animationState.currentFlightId,
                        file |-> correctFrame.file]
        h2 == IF h1.animationState.currentRadarFile # correctFrame.file
              THEN IF h1.radarOverlay = null THEN Throw(h1, "TypeError")
                   ELSE [SetOverlayUrl(h1, newImageUrl) EXCEPT
                            !.animationState.currentRadarFile = correctFrame.file]
              ELSE h1
    IN
    IF h2.exc # "none" THEN h2 ELSE MoveMarker(h2, point, pointIndex)

\* updateFrame of part_000 without its getUrl() comparison: setUrl every time.
updateFramePart000AlwaysSets(h, pointIndex) ==
    LET h1 == [h EXCEPT !.animationState.currentIndex = pointIndex] IN
    IF h1.flightData = null THEN Throw(h1, "TypeError")
    ELSE IF pointIndex < 0 \/ pointIndex >= Len(h1.flightData.points) THEN h1
    ELSE
    LET point == h1.flightData.points[pointIndex + 1]
        pointTime == NewDate(point.timestamp_iso)
    IN
    IF h1.animationState.radarMeta = null THEN Throw(h1, "TypeError")
    ELSE
    LET radarFrameIndex ==
            RadarFrameIndex(h1.animationState.radarMeta.timestamps, pointTime)
        newImageUrl == [flight |-> h1.animationState.currentFlightId,
                        file |-> radarFrameIndex]
        h2 == IF h1.radarOverlay = null THEN Throw(h1, "TypeError")
              ELSE SetOverlayUrl(h1, newImageUrl)
    IN
    IF h2.exc # "none" THEN h2 ELSE MoveMarker(h2, point, pointIndex)

\* function updateFrame(pointIndex), part_000
updateFramePart000(h, pointIndex) ==
    LET h1 == [h EXCEPT !.animationState.currentIndex = pointIndex] IN
    IF h1.flightData = null THEN Throw(h1, "TypeError")
    ELSE IF pointIndex < 0 \/ pointIndex >= Len(h1.flightData.points) THEN h1
    ELSE
    LET point == h1.flightData.points[pointIndex + 1]
        pointTime == NewDate(point.timestamp_iso)
    IN
    IF h1.animationState.radarMeta = null THEN Throw(h1, "TypeError")
    ELSE
    LET radarFrameIndex ==
            RadarFrameIndex(h1.animationState.radarMeta.timestamps, pointTime)
        newImageUrl == [flight |-> h1.animationState.currentFlightId,
                        file |-> radarFrameIndex]
        h2 == IF h1.radarOverlay = null THEN Throw(h1, "TypeError")
              ELSE IF h1.radarOverlay.url # newImageUrl
                   THEN SetOverlayUrl(h1, newImageUrl)
                   ELSE h1
    IN
    IF h2.exc # "none" THEN h2 ELSE MoveMarker(h2, point, pointIndex)

updateFrame(h, pointIndex) ==
    IF build = "script.js" THEN updateFrameScript(h, pointIndex)
    ELSE updateFramePart000(h, pointIndex)

\* resetMap without its classList.add('hidden') on #animation-controls.
resetMapControlsShown(h) ==
    LET h1 == pauseAnimation(h) IN
    [h1 EXCEPT !.flightPathLayer = OffMap(@),
               !.airplaneMarker = OffMap(@),
               !.radarOverlay = OffMap(@),
               !.flightData = null,
               !.animationState.currentIndex = 0,
               !.animationState.currentRadarFile =
                    IF build = "script.js" THEN NoFile ELSE @,
               !.dom.sliderDisabled = TRUE]

\* resetMap without its pauseAnimation() call.
resetMapNoPause(h) ==
    [h EXCEPT !.flightPathLayer = OffMap(@),
              !.airplaneMarker = OffMap(@),
              !.radarOverlay = OffMap(@),
              !.flightData = null,
              !.animationState.currentIndex = 0,
              !.animationState.currentRadarFile =
                   IF build = "script.js" THEN NoFile ELSE @,
              !.dom.controlsHidden = TRUE,
              !.dom.sliderDisabled = TRUE]

\* function resetMap()
resetMap(h) ==
    LET h1 == pauseAnimation(h) IN
    [h1 EXCEPT !.flightPathLayer = OffMap(@),
               !.airplaneMarker = OffMap(@),
               !.radarOverlay = OffMap(@),
               !.flightData = null,
               !.animationState.currentIndex = 0,
               !.animationState.currentRadarFile =
                    IF build = "script.js" THEN NoFile ELSE @,
               !.dom.controlsHidden = TRUE,
               !.dom.sliderDisabled = TRUE]

\* function drawFlightPath()
drawFlightPath(h) ==
    IF h.flightData = null THEN Throw(h, "TypeError")
    ELSE IF h.flightData.path # 0
    THEN [h EXCEPT !.flightPathLayer = [path |-> h.flightData.path, onMap |-> TRUE]]
    ELSE h

\* script.js line 86 reads start_point, a name declared nowhere in the file.
StartPointDeclared == FALSE

\* L.circleMarker([startPoint[1], startPoint[0]], ...).addTo(map)
NewMarker(h, startPoint) ==
    [Orphaned(h, "marker", h.airplaneMarker) EXCEPT
        !.airplaneMarker = [at |-> startPoint, onMap |-> TRUE]]

\* L.imageOverlay(radarImageUrl, radarMeta.bounds).addTo(map)
NewOverlay(h, url) ==
    [Orphaned(h, "overlay", h.radarOverlay) EXCEPT
        !.radarOverlay = [url |-> url, onMap |-> TRUE]]

\* slider.max = flightData.points.length - 1; slider.disabled = false
EnableSlider(h) ==
    [h EXCEPT !.dom.sliderMax = Len(h.flightData.points) - 1,
              !.dom.sliderDisabled = FALSE]

\* function setupAnimation(), script.js
setupAnimationScript(h) ==
    IF h.flightData.points = <<>> THEN Throw(h, "TypeError")
    ELSE IF ~StartPointDeclared THEN Throw(h, "ReferenceError")
    ELSE
    LET h1 == NewMarker(h, h.flightData.points[1].coordinates) IN
    IF h1.animationState.radarMeta.frames = <<>> THEN Throw(h1, "TypeError")
    ELSE
    LET firstFrameFile == h1.animationState.radarMeta.frames[1].file
        h2 == NewOverlay(h1, [flight |-> h1.animationState.currentFlightId,
                              file |-> firstFrameFile])
        h3 == [h2 EXCEPT !.animationState.currentRadarFile = firstFrameFile]
    IN updateFrameScript(EnableSlider(h3), 0)

\* function setupAnimation(), part_000
setupAnimationPart000(h) ==
    IF h.flightData.points = <<>> THEN Throw(h, "TypeError")
    ELSE
    LET h1 == NewMarker(h, h.flightData.points[1].coordinates)
        h2 == NewOverlay(h1, [flight |-> h1.animationState.currentFlightId,
                              file |-> 0])
    IN updateFramePart000(EnableSlider(h2), 0)

setupAnimation(h) ==
    IF build = "script.js" THEN setupAnimationScript(h)
    ELSE setupAnimationPart000(h)

(***************************************************************************)
(* async function loadFlight(flightId), cut at its awaits.  A fetch and    *)
(* the .json() that follows it touch no global, so the pair is one await:  *)
(* it either yields the parsed file or rejects.                            *)
(***************************************************************************)
\* up to the first await: resetMap(); animationState.currentFlightId = flightId
loadFlightStart(h, flightId) ==
    [resetMap(h) EXCEPT !.animationState.currentFlightId = flightId]

\* from flight_data.geojson parsed to the second await
loadFlightTrack(h, flightId) ==
    [h EXCEPT !.flightData = FlightDataOf(flightId)]

\* animationState.radarMeta = await metaResponse.json(), and in script.js
\* radarMeta.frames.sort(...)
StoreRadarMeta(h, flightId) ==
    IF build = "script.js"
    THEN [h EXCEPT !.animationState.radarMeta =
            [bounds |-> flightId, frames |-> SortFrames(FramesOf(flightId))]]
    ELSE [h EXCEPT !.animationState.radarMeta = RadarMetaOf(build, flightId)]

\* document.getElementById('animation-controls').classList.remove('hidden')
ShowControls(h) == [h EXCEPT !.dom.controlsHidden = FALSE]

\* from radar_meta.json parsed to the end of the try block
loadFlightMeta(h, flightId) ==
    LET h1 == StoreRadarMeta(h, flightId)
        h2 == drawFlightPath(h1)
        h3 == IF h2.exc # "none" THEN h2 ELSE setupAnimation(h2)
    IN IF h3.exc # "none" THEN h3 ELSE ShowControls(h3)

\* The interval callback without its "nextIndex = 0; // Loop animation".
TimerCallbackNoWrap(h) ==
    IF h.flightData = null THEN Throw(h, "TypeError")
    ELSE updateFrame(h, h.animationState.currentIndex + 1)

\* the interval callback of playAnimation
TimerCallback(h) ==
    IF h.flightData = null THEN Throw(h, "TypeError")
    ELSE LET nextIndex == h.animationState.currentIndex + 1 IN
         IF nextIndex >= Len(h.flightData.points)
         THEN updateFrame(h, 0)
         ELSE updateFrame(h, nextIndex)

\* the click listener of #play-pause-btn
ClickListener(h) ==
    IF h.animationState.isPlaying THEN pauseAnimation(h) ELSE playAnimation(h)

\* The input listener without its pauseAnimation() call.
InputListenerNoPause(h, value) == updateFrame(h, value)

\* the input listener of #timeline-slider
InputListener(h, value) == updateFrame(pauseAnimation(h), value)

(***************************************************************************)
(* The state machine.                                                      *)
(***************************************************************************)
LoadKeys == Flights \X {"track", "meta"}

RECURSIVE SumOver(_, _)
SumOver(f, S) ==
    IF S = {} THEN 0
    ELSE LET x == CHOOSE y \in S : TRUE IN f[x] + SumOver(f, S \ {x})

NumPending == SumOver(pending, LoadKeys)

\* The handler has run to its end (or to a throw): its heap becomes the state.
\* An exception thrown inside loadFlight's try block ("trackFetched",
\* "metaFetched") is caught there and reported with alert(); any other is
\* uncaught.
Commit(h, op) ==
    /\ flightData' = h.flightData
    /\ radarOverlay' = h.radarOverlay
    /\ airplaneMarker' = h.airplaneMarker
    /\ flightPathLayer' = h.flightPathLayer
    /\ animationState' = h.animationState
    /\ dom' = h.dom
    /\ timers' = h.timers
    /\ orphans' = h.orphans
    /\ last' = [op |-> op, wasPlaying |-> animationState.isPlaying, exc |-> h.exc,
                setUrl |-> h.setUrl]
    /\ UNCHANGED <<build, flights, query>>

NoQuery == [frames |-> <<>>, t |-> 0, t2 |-> 0, by |-> "none", out |-> 0, out2 |-> 0]

InitOf(lists) ==
    /\ build \in Builds
    /\ flights \in lists
    /\ flightData = null
    /\ radarOverlay = null
    /\ airplaneMarker = null
    /\ flightPathLayer = null
    /\ animationState = [isPlaying |-> FALSE, timer |-> NoTimer, currentIndex |-> 0,
                         radarMeta |-> null, currentFlightId |-> NoFlight,
                         currentRadarFile |-> NoFile]
    /\ dom = [controlsHidden |-> TRUE, sliderDisabled |-> TRUE, sliderMax |-> 0,
              selected |-> NoFlight]
    /\ timers = {}
    /\ orphans = [marker |-> 0, overlay |-> 0]
    /\ pending = [k \in LoadKeys |-> 0]
    /\ started = 0
    /\ last = [op |-> "init", wasPlaying |-> FALSE, exc |-> "none", setUrl |-> 0]
    /\ query = NoQuery

Init == InitOf(FlightLists)

\* The browser has set #flight-select's value (e.target.value) when the change
\* listener runs.
Chosen(h, value) == [h EXCEPT !.dom.selected = value]

\* change on #flight-select with a flight chosen: loadFlight(e.target.value)
SelectFlight(f) ==
    /\ NumPending < MaxPending
    /\ Commit(loadFlightStart(Chosen(Heap, f), f), "loadFlight")
    /\ pending' = [pending EXCEPT ![<<f, "track">>] = @ + 1]
    /\ started' = Min(started + 1, MaxStarted)

\* change on #flight-select with the empty option chosen: resetMap()
Deselect ==
    /\ Commit(resetMap(Chosen(Heap, NoFlight)), "resetMap")
    /\ UNCHANGED <<pending, started>>

\* the first await of a loadFlight(f) resumes
TrackFetched(f) ==
    /\ pending[<<f, "track">>] > 0
    /\ UNCHANGED started
    /\ \/ /\ Commit(loadFlightTrack(Heap, f), "trackFetched")
          /\ pending' = [pending EXCEPT ![<<f, "track">>] = @ - 1,
                                        ![<<f, "meta">>] = @ + 1]
       \/ /\ Commit(Throw(Heap, "FetchError"), "trackFetched")
          /\ pending' = [pending EXCEPT ![<<f, "track">>] = @ - 1]

\* the second await of a loadFlight(f) resumes
MetaFetched(f) ==
    /\ pending[<<f, "meta">>] > 0
    /\ UNCHANGED started
    /\ pending' = [pending EXCEPT ![<<f, "meta">>] = @ - 1]
    /\ \/ Commit(loadFlightMeta(Heap, f), "metaFetched")
       \/ Commit(Throw(Heap, "FetchError"), "metaFetched")

\* click on #play-pause-btn
ClickPlayPause ==
    /\ animationState.isPlaying \/ FreeTimerIds(Heap) # {}
    /\ Commit(ClickListener(Heap), "click")
    /\ UNCHANGED <<pending, started>>

\* input on #timeline-slider
SeekValues == (0 - 1)..MaxSeek

SliderInput(value) ==
    /\ Commit(InputListener(Heap, value), "seek")
    /\ UNCHANGED <<pending, started>>

\* an active interval fires
Tick(id) ==
    /\ id \in timers
    /\ Commit(TimerCallback(Heap), "tick")
    /\ UNCHANGED <<pending, started>>

Next ==
    \/ \E f \in flights : SelectFlight(f)
    \/ Deselect
    \/ \E f \in Flights : TrackFetched(f)
    \/ \E f \in Flights : MetaFetched(f)
    \/ ClickPlayPause
    \/ \E value \in SeekValues : SliderInput(value)
    \/ \E id \in TimerIds : Tick(id)

Spec == Init /\ [][Next]_vars

(***************************************************************************)
(* The same machine driven through the page only: the play/pause button    *)
(* can be clicked while #animation-controls is shown, and the slider       *)
(* delivers input while it is enabled, with a value between 0 and its max. *)
(* The select fires change only when its value has changed.  Every         *)
(* behaviour of SpecPage is a behaviour of Spec.                           *)
(***************************************************************************)
PageSelect(f) ==
    /\ dom.selected # f
    /\ SelectFlight(f)

PageDeselect ==
    /\ dom.selected # NoFlight
    /\ Deselect

PageClick ==
    /\ ~dom.controlsHidden
    /\ ClickPlayPause

PageInput(value) ==
    /\ ~dom.controlsHidden
    /\ ~dom.sliderDisabled
    /\ 0 <= value
    /\ value <= dom.sliderMax
    /\ SliderInput(value)

NextPage ==
    \/ \E f \in flights : PageSelect(f)
    \/ PageDeselect
    \/ \E f \in Flights : TrackFetched(f)
    \/ \E f \in Flights : MetaFetched(f)
    \/ PageClick
    \/ \E value \in SeekValues : PageInput(value)
    \/ \E id \in TimerIds : Tick(id)

SpecPage == Init /\ [][NextPage]_vars

(***************************************************************************)
(* A deployment that offers one flight, with the scheduling the browser    *)
(* guarantees: an interval fires again and again for as long as it is      *)
(* active (setInterval, 50 ms).                                            *)
(***************************************************************************)
SingleFlightLists == {{1}, {2}, {4}}

SpecFair ==
    /\ InitOf(SingleFlightLists)
    /\ [][Next]_vars
    /\ WF_vars(\E id \in TimerIds : Tick(id))

(***************************************************************************)
(* The frame search as a function: any radar series of up to MaxFrames     *)
(* timestamps (valid ones 0..MaxT, or one that does not parse) and any     *)
(* point time, searched the way either revision's updateFrame searches.    *)
(* frames holds the timestamps in the order of radar_meta.json, t and t2    *)
(* the timestamp_iso of two points; out and out2 are the 0-based positions *)
(* found for them (in the file's order: the frame's file).                 *)
(***************************************************************************)
Stamps == (0 - 1)..MaxT

FrameSeqs == UNION {[1..n -> Stamps] : n \in 1..MaxFrames}

\* radarMeta.frames of script.js for a series of timestamps
AsFrames(times) == [i \in 1..Len(times) |-> [time |-> times[i], file |-> i - 1]]

InitResolver ==
    /\ build = "script.js"
    /\ flights = {}
    /\ flightData = null
    /\ radarOverlay = null
    /\ airplaneMarker = null
    /\ flightPathLayer = null
    /\ animationState = [isPlaying |-> FALSE, timer |-> NoTimer, currentIndex |-> 0,
                         radarMeta |-> null, currentFlightId |-> NoFlight,
                         currentRadarFile |-> NoFile]
    /\ dom = [controlsHidden |-> TRUE, sliderDisabled |-> TRUE, sliderMax |-> 0,
              selected |-> NoFlight]
    /\ timers = {}
    /\ orphans = [marker |-> 0, overlay |-> 0]
    /\ pending = [k \in LoadKeys |-> 0]
    /\ started = 0
    /\ last = [op |-> "init", wasPlaying |-> FALSE, exc |-> "none", setUrl |-> 0]
    /\ \E fr \in FrameSeqs, t \in Stamps, t2 \in Stamps :
          query = [frames |-> fr, t |-> t, t2 |-> t2, by |-> "none", out |-> 0, out2 |-> 0]

\* the for...of loop of script.js
ResolveScript ==
    /\ query.by = "none"
    /\ query' = [query EXCEPT !.by = "script.js",
                   !.out = CorrectFrameIndex(AsFrames(query.frames), NewDate(query.t)),
                   !.out2 = CorrectFrameIndex(AsFrames(query.frames), NewDate(query.t2))]
    /\ UNCHANGED <<build, flights, flightData, radarOverlay, airplaneMarker,
                   flightPathLayer, animationState, dom, timers, orphans, pending,
                   started, last>>

\* the counting-down loop of part_000
ResolvePart000 ==
    /\ query.by = "none"
    /\ query' = [query EXCEPT !.by = "part_000",
                   !.out = RadarFrameIndex(query.frames, NewDate(query.t)),
                   !.out2 = RadarFrameIndex(query.frames, NewDate(query.t2))]
    /\ UNCHANGED <<build, flights, flightData, radarOverlay, airplaneMarker,
                   flightPathLayer, animationState, dom, timers, orphans, pending,
                   started, last>>

\* the file of correctFrame after loadFlight's frames.sort
SortedFrameFile(times, pointTime) ==
    LET frames == SortFrames(AsFrames(times))
    IN frames[CorrectFrameIndex(frames, pointTime) + 1].file

\* script.js as a whole: the sort of loadFlight, then the for...of loop
ResolveSorted ==
    /\ query.by = "none"
    /\ query' = [query EXCEPT !.by = "sorted",
                   !.out = SortedFrameFile(query.frames, NewDate(query.t)),
                   !.out2 = SortedFrameFile(query.frames, NewDate(query.t2))]
    /\ UNCHANGED <<build, flights, flightData, radarOverlay, airplaneMarker,
                   flightPathLayer, animationState, dom, timers, orphans, pending,
                   started, last>>

NextResolver == ResolveScript \/ ResolvePart000 \/ ResolveSorted

SpecResolver == InitResolver /\ [][NextResolver]_vars

(***************************************************************************)
(*                              The claims                                 *)
(***************************************************************************)

\* The radar series is in ascending order of its (valid) timestamps.
Ascending(times) ==
    \A i \in 1..(Len(times) - 1) :
        times[i] >= 0 /\ times[i + 1] >= 0 /\ times[i] <= times[i + 1]

\* The 0-based positions of the frames stamped at or before t.
AtOrBefore(times, t) ==
    {i \in 0..(Len(times) - 1) : times[i + 1] >= 0 /\ t >= 0 /\ times[i + 1] <= t}

Greatest(S) == CHOOSE i \in S : \A j \in S : j <= i

\* C1: for every non-empty radar series in ascending timestamp order and every
\* point time t, the frame updateFrame picks is the one at the greatest
\* position i with frames[i].timestamp <= t, and the one at position 0 when no
\* frame has a timestamp <= t (so whenever t is earlier than the first frame).
C1_ResolverPicksLastAtOrBefore ==
    (query.by # "none" /\ Ascending(query.frames)) =>
        query.out = IF AtOrBefore(query.frames, query.t) = {} THEN 0
                    ELSE Greatest(AtOrBefore(query.frames, query.t))

\* Both branches of C1 happen: a middle frame is picked out of three, and a
\* point earlier than every frame gets position 0.
C1_Witness ==
    /\ query.by = "script.js"
    /\ Ascending(query.frames)
    /\ Len(query.frames) = 3
    /\ query.frames[3] > query.t
    /\ query.frames[2] <= query.t
    /\ query.out = 1

\* The states of the controller, read off the globals.
SessionLoaded == flightData # null

TrackLength == IF flightData = null THEN 0 ELSE Len(flightData.points)

\* C2: in every reachable state at most one interval timer is active, and one
\* is active exactly when isPlaying is true (it is then the one the script
\* holds the handle of); playAnimation called while already playing starts no
\* second timer.
C2_OneTimerIffPlaying ==
    /\ Cardinality(timers) <= 1
    /\ (timers # {}) <=> animationState.isPlaying
    /\ animationState.isPlaying => timers = {animationState.timer}
    /\ animationState.isPlaying => playAnimation(Heap).timers = timers

\* Playing while two loadFlight calls made in succession are both waiting for
\* their fetches.
C2_Witness ==
    /\ animationState.isPlaying
    /\ Cardinality(timers) = 1
    /\ NumPending = 2
    /\ last.op = "click"

\* C3 as claimed: whenever a flight load completes without an error, the
\* controller is paused (isPlaying false, no active timer) at position 0.
C3_LoadCompletesPaused ==
    (last.op = "metaFetched" /\ last.exc = "none") =>
        /\ ~animationState.isPlaying
        /\ timers = {}
        /\ animationState.currentIndex = 0

\* C4 as claimed: with a session loaded (a track of n >= 1 points),
\* 0 <= currentIndex < n.
C4_PositionInRange ==
    (SessionLoaded /\ TrackLength >= 1) =>
        (0 <= animationState.currentIndex /\ animationState.currentIndex < TrackLength)

\* k clamped to [0, n - 1]
Clamp(k, n) == IF k < 0 THEN 0 ELSE IF k > n - 1 THEN n - 1 ELSE k

\* C5 as claimed: with a session of n points loaded, seek(k) for any integer k
\* raises no error and leaves the position at k clamped to [0, n - 1].
C5_SeekClamps ==
    [][\A k \in SeekValues :
          (SessionLoaded /\ TrackLength >= 1 /\ ~dom.controlsHidden /\ SliderInput(k)) =>
              /\ last'.exc = "none"
              /\ animationState'.currentIndex = Clamp(k, TrackLength)]_vars

\* C6: a seek(k) made while playing leaves the controller paused (isPlaying
\* false, no active timer) at position k, and from a paused controller no tick
\* runs, so the position stays until the next play.
C6_SeekPausesThenSets ==
    [][/\ \A k \in SeekValues :
             (animationState.isPlaying /\ SliderInput(k)) =>
                 /\ ~animationState'.isPlaying
                 /\ timers' = {}
                 /\ animationState'.currentIndex = k
       /\ (~animationState.isPlaying /\ last'.op = "tick") =>
             animationState'.currentIndex = animationState.currentIndex]_vars

\* A seek to position 2 of a three-point track has just paused a playing
\* controller.
C6_Witness ==
    /\ last.op = "seek"
    /\ last.wasPlaying
    /\ ~animationState.isPlaying
    /\ timers = {}
    /\ animationState.currentIndex = 2
    /\ TrackLength = 3

\* C7: while playing with a track of n >= 1 points loaded, a tick moves the
\* position from p to p + 1 when p + 1 < n and to 0 otherwise, and leaves the
\* controller playing; and from every such state each position i < n is
\* reached, unless an event first stops the playback or replaces the track
\* (so with ticks only, every position is visited again and again).
C7_TickAdvancesAndLoops ==
    /\ [][(animationState.isPlaying /\ SessionLoaded /\ TrackLength >= 1
            /\ \E id \in TimerIds : Tick(id)) =>
              /\ animationState'.isPlaying
              /\ animationState'.currentIndex =
                    IF animationState.currentIndex + 1 < TrackLength
                    THEN animationState.currentIndex + 1 ELSE 0]_vars
    /\ \A i \in 0..2 :
          (animationState.isPlaying /\ SessionLoaded /\ TrackLength > i)
          ~> (\/ animationState.currentIndex = i
              \/ ~animationState.isPlaying
              \/ TrackLength <= i)

\* A tick has just wrapped the position of a playing three-point track to 0.
C7_Witness ==
    /\ last.op = "tick"
    /\ last.exc = "none"
    /\ animationState.isPlaying
    /\ TrackLength = 3
    /\ animationState.currentIndex = 0

MarkerOnMap == (airplaneMarker # null /\ airplaneMarker.onMap) \/ orphans.marker > 0

OverlayOnMap == (radarOverlay # null /\ radarOverlay.onMap) \/ orphans.overlay > 0

\* C8 as claimed: when a fetch of a flight load fails, the state is the fully
\* reset one: flightData null, position 0, no active timer, no frame
\* displayed, controls hidden.
C8_FetchFailureLeavesReset ==
    (last.op \in {"trackFetched", "metaFetched"} /\ last.exc = "FetchError") =>
        /\ flightData = null
        /\ animationState.currentIndex = 0
        /\ timers = {}
        /\ ~OverlayOnMap
        /\ dom.controlsHidden

\* The flight whose radar_meta.json the load that just completed stored.
CompletedFlight == animationState.radarMeta.bounds

\* C9 as claimed: a flight load whose track or radar series is empty ends in a
\* reported error with the controller stopped: no session reference, no
\* marker or overlay on the map, controls hidden.
C9_EmptySeriesRejected ==
    (/\ last.op = "metaFetched"
     /\ last.exc # "FetchError"
     /\ (TrackTimes(CompletedFlight) = <<>> \/ FrameTimes(CompletedFlight) = <<>>)) =>
        /\ last.exc # "none"
        /\ flightData = null
        /\ ~MarkerOnMap
        /\ ~OverlayOnMap
        /\ dom.controlsHidden

\* The file of the frame in effect at time t in a radar series: the last one,
\* in ascending time order, stamped at or before t, or the first one.
EffectiveFile(f, t) ==
    LET sorted == SortFrames(FramesOf(f))
        times == [i \in 1..Len(sorted) |-> sorted[i].time]
        pos == IF AtOrBefore(times, t) = {} THEN 0 ELSE Greatest(AtOrBefore(times, t))
    IN sorted[pos + 1].file

\* C10 as claimed: the one flight load made so far, both of whose fetches
\* succeeded with a non-empty track and a non-empty radar series (and with no
\* deselection in between), has completed without an error: the session is
\* loaded, the controls are enabled, the marker is at track point 0 and the
\* overlay shows the frame in effect at track point 0's timestamp.
C10_SingleLoadCompletes ==
    (/\ started = 1
     /\ last.op = "metaFetched"
     /\ last.exc # "FetchError"
     /\ flightData # null
     /\ TrackTimes(CompletedFlight) # <<>>
     /\ FrameTimes(CompletedFlight) # <<>>) =>
        /\ last.exc = "none"
        /\ ~dom.controlsHidden
        /\ ~dom.sliderDisabled
        /\ animationState.currentIndex = 0
        /\ airplaneMarker = [at |-> <<CompletedFlight, 0>>, onMap |-> TRUE]
        /\ radarOverlay # null
        /\ radarOverlay.onMap
        /\ radarOverlay.url =
              [flight |-> CompletedFlight,
               file |-> EffectiveFile(CompletedFlight, TrackTimes(CompletedFlight)[1])]

\* C11 as claimed: while no flight is selected (from a deselection until the
\* next selection, and before the first selection) the controller is stopped:
\* no session reference, no active timer, controls hidden, whatever loads that
\* were started earlier do when their fetches return.
C11_DeselectStaysStopped ==
    dom.selected = NoFlight =>
        /\ flightData = null
        /\ ~animationState.isPlaying
        /\ timers = {}
        /\ dom.controlsHidden

\* C12: after resetMap, from whatever state it was called in (by the
\* deselection or at the start of loadFlight), no timer is active, isPlaying is
\* false, flightData is null and the position is 0, and it raised no error;
\* resetMap on a controller that is already stopped (the initial state, or one
\* resetMap has just run on) changes nothing and raises nothing, and in every
\* state two resetMap calls in a row leave what one leaves.
C12_ResetStopsAndIsIdempotent ==
    /\ last.op \in {"resetMap", "loadFlight"} =>
            /\ last.exc = "none"
            /\ timers = {}
            /\ ~animationState.isPlaying
            /\ flightData = null
            /\ animationState.currentIndex = 0
    /\ last.op \in {"init", "resetMap", "loadFlight"} => resetMap(Heap) = Heap
    /\ resetMap(resetMap(Heap)) = resetMap(Heap)

\* resetMap has just torn down a session that was playing: its marker is off
\* the map, its timer is gone.
C12_Witness ==
    /\ last.op = "resetMap"
    /\ last.wasPlaying
    /\ airplaneMarker # null
    /\ ~airplaneMarker.onMap
    /\ radarOverlay # null
    /\ ~radarOverlay.onMap
    /\ timers = {}
    /\ flightData = null

\* C13: a click on Pause while playing (pauseAnimation) leaves no active timer
\* and isPlaying false, and changes neither the position nor the track, the
\* radar metadata, the overlay or the marker; no interval fires from a paused
\* controller; pauseAnimation on a paused controller changes nothing, and two
\* pauseAnimation calls in a row leave what one leaves.
C13_PauseKeepsPosition ==
    [][/\ (animationState.isPlaying /\ ClickPlayPause) =>
             /\ last'.exc = "none"
             /\ ~animationState'.isPlaying
             /\ timers' = {}
             /\ animationState' = [animationState EXCEPT !.isPlaying = FALSE]
             /\ UNCHANGED <<flightData, radarOverlay, airplaneMarker, flightPathLayer, dom>>
       /\ ~animationState.isPlaying => ~(\E id \in TimerIds : Tick(id))
       /\ ~animationState.isPlaying => pauseAnimation(Heap) = Heap
       /\ pauseAnimation(pauseAnimation(Heap)) = pauseAnimation(Heap)]_vars

\* A click has just paused a playing three-point session at position 1.
C13_Witness ==
    /\ last.op = "click"
    /\ last.wasPlaying
    /\ ~animationState.isPlaying
    /\ timers = {}
    /\ ~dom.controlsHidden
    /\ TrackLength = 3
    /\ animationState.currentIndex = 1

SessionRadarTimes ==
    IF build = "script.js"
    THEN [i \in 1..Len(animationState.radarMeta.frames) |->
             animationState.radarMeta.frames[i].time]
    ELSE animationState.radarMeta.timestamps

SessionTrackTimes ==
    [i \in 1..Len(flightData.points) |-> flightData.points[i].timestamp_iso]

\* held is fetched put in ascending order with equal timestamps keeping their
\* relative order.
StablySorted(held, fetched) ==
    /\ Len(held) = Len(fetched)
    /\ Ascending(held)
    /\ \E p \in [1..Len(held) -> 1..Len(held)] :
          /\ \A i, j \in 1..Len(held) : i < j => p[i] # p[j]
          /\ \A i \in 1..Len(held) : held[i] = fetched[p[i]]
          /\ \A i, j \in 1..Len(held) : (i < j /\ held[i] = held[j]) => p[i] < p[j]

\* The flight the track was fetched for.
TrackFlight ==
    IF flightData.points # <<>> THEN flightData.points[1].coordinates[1]
    ELSE flightData.path

\* C15 as claimed: when a load has completed without an error, the radar series
\* and the track the session holds are each the fetched series in ascending
\* timestamp order, equal timestamps in their original relative order.
C15_SeriesSortedOnLoad ==
    (last.op = "metaFetched" /\ last.exc = "none") =>
        /\ StablySorted(SessionRadarTimes, FrameTimes(CompletedFlight))
        /\ StablySorted(SessionTrackTimes, TrackTimes(TrackFlight))

\* C16: for every non-empty radar series in ascending timestamp order and any
\* two point times t <= t2, the frame found for t is stamped no later than the
\* frame found for t2.
C16_ResolverMonotone ==
    (/\ query.by # "none"
     /\ Ascending(query.frames)
     /\ 0 <= query.t
     /\ query.t <= query.t2) =>
        query.frames[query.out + 1] <= query.frames[query.out2 + 1]

\* The backward scan has found the first of three frames for the earlier
\* time and the last for the later one.
C16_Witness ==
    /\ query.by = "part_000"
    /\ query.frames = <<0, 1, 2>>
    /\ query.t = 0
    /\ query.t2 = 2
    /\ query.out = 0
    /\ query.out2 = 2

\* Every timestamp of the series parses.
AllValid(times) == \A i \in 1..Len(times) : times[i] >= 0

\* The greatest timestamp of the series at or before t.
LatestStamp(times, t) ==
    CHOOSE s \in Stamps :
        /\ \E i \in 1..Len(times) : times[i] = s
        /\ s <= t
        /\ \A i \in 1..Len(times) : times[i] <= t => times[i] <= s

\* The positions (0-based) of the frames stamped s.
StampedAt(times, s) == {i \in 0..(Len(times) - 1) : times[i + 1] = s}

\* C18: when several frames carry the greatest timestamp s at or before the
\* point time, the frame found is the last of them: the one at the greatest
\* position of an ascending series, and, when the series is first sorted
\* (ties keep the file's order), the one that comes last in the file.
C18_TieGoesToLast ==
    (/\ query.by # "none"
     /\ AllValid(query.frames)
     /\ query.by = "sorted" \/ Ascending(query.frames)
     /\ query.t >= 0
     /\ AtOrBefore(query.frames, query.t) # {}
     /\ Cardinality(StampedAt(query.frames, LatestStamp(query.frames, query.t))) > 1) =>
        query.out = Greatest(StampedAt(query.frames, LatestStamp(query.frames, query.t)))

\* Two frames stamped 1 around a frame stamped 0, point time 1: after the
\* sort the frame found is the third of the file.
C18_Witness ==
    /\ query.by = "sorted"
    /\ query.frames = <<1, 0, 1>>
    /\ query.t = 1
    /\ query.out = 2

\* The image the frame search of the running revision gives for track
\* position pos, from the track and the radar metadata the globals hold.
ResolvedUrl(pos) ==
    LET pointTime == NewDate(flightData.points[pos + 1].timestamp_iso) IN
    [flight |-> animationState.currentFlightId,
     file |-> IF build = "script.js"
              THEN animationState.radarMeta.frames[
                       CorrectFrameIndex(animationState.radarMeta.frames, pointTime) + 1].file
              ELSE RadarFrameIndex(animationState.radarMeta.timestamps, pointTime)]

\* C17: a tick or a seek that moves to a position of the track sets the
\* overlay's image exactly once when the frame found for the new position is
\* not the one the overlay shows, and not at all when it is; afterwards the
\* overlay shows the frame found.  A move to a position outside the track
\* touches no overlay.
C17_SwapIffFrameChanges ==
    [][((\E id \in TimerIds : Tick(id)) \/ (\E k \in SeekValues : SliderInput(k))) =>
          IF flightData # null /\ animationState'.currentIndex \in 0..(TrackLength - 1)
          THEN /\ last'.exc = "none"
               /\ radarOverlay # null
               /\ last'.setUrl =
                     IF radarOverlay.url # ResolvedUrl(animationState'.currentIndex)
                     THEN 1 ELSE 0
               /\ radarOverlay'.url = ResolvedUrl(animationState'.currentIndex)
          ELSE /\ last'.setUrl = 0
               /\ radarOverlay' = radarOverlay]_vars

\* A tick has moved a playing three-point session from position 0 to
\* position 1, which has the same frame (frame 0): no setUrl call was made.
C17_Witness ==
    /\ last.op = "tick"
    /\ last.exc = "none"
    /\ last.setUrl = 0
    /\ TrackLength = 3
    /\ animationState.currentIndex = 1
    /\ radarOverlay # null
    /\ radarOverlay.onMap
    /\ radarOverlay.url.file = 0

\* C19 as claimed: whenever the controls are shown (a session is live), the
\* track, the radar metadata and currentFlightId belong to one flight.
C19_SessionFromOneFlight ==
    ~dom.controlsHidden =>
        /\ flightData # null
        /\ animationState.radarMeta # null
        /\ TrackFlight = animationState.currentFlightId
        /\ CompletedFlight = animationState.currentFlightId

\* C20 as claimed: with a session live (controls shown), no load waiting for a
\* fetch and the position on the track, the overlay shows the frame the frame
\* search gives for the time of the point at the current position (and in
\* script.js currentRadarFile names it).
C20_DisplayedFrameIsResolved ==
    (/\ ~dom.controlsHidden
     /\ NumPending = 0
     /\ flightData # null
     /\ animationState.currentIndex \in 0..(TrackLength - 1)) =>
        /\ radarOverlay # null
        /\ radarOverlay.url = ResolvedUrl(animationState.currentIndex)
        /\ build = "script.js" =>
              animationState.currentRadarFile =
                  ResolvedUrl(animationState.currentIndex).file

====
